---- MODULE Spec2Model ----
(***************************************************************************)
(* A model of the wildlife ML pipeline: the inference Predictor            *)
(* (src/inference/predictor.py), the PredictionLogger and the ModelMonitor *)
(* (src/monitoring/monitor.py), the Trainer (src/training/trainer.py),     *)
(* the species mapping of the training script (src/data/loader.py,         *)
(* train.py) and the prediction service (app.py).                          *)
(*                                                                         *)
(* Conventions.  A probability is a level 0..MaxProb (the softmax output   *)
(* of the opaque network, quantised: the code only compares, adds and      *)
(* divides these values).  A quotient a / b is the pair <<a, b>>.  The     *)
(* variable `call` holds the operation that has just run, its arguments    *)
(* and what it returned or raised.                                         *)
(***************************************************************************)
EXTENDS Integers, Sequences, FiniteSets, TLC

VARIABLES
    \* Predictor (predictor.py:32-47)
    species_mapping, confidence_threshold, model, model_path, is_loaded,
    \* the environment the Predictor reads
    weights_saved,      \* the weights file at model_path exists
    weight_reads,       \* number of torch.load calls made so far
    fs,                 \* paths of the files that exist
    posix,              \* pathlib's glob patterns are case-sensitive
    probabilities,      \* softmax output of the network on a readable image
    now,                \* the clock datetime.now() reads
    \* PredictionLogger instances and the log directory
    current_session_path, files,
    logged,             \* history: what each logger was given to log
    \* the result list predict.py's main holds (predict.py:79)
    results,
    \* ModelMonitor (monitor.py:99-108) and its metrics_log.jsonl
    metrics_history, metrics_log,
    \* the WildlifeModel a Trainer trains: its parameters' requires_grad
    requires_grad,
    \* Trainer (trainer.py:72-107) and the checkpoint files it has written
    history, checkpoints,
    \* Trainer.fit: its arguments, its locals and where it stands
    fit_args, epoch, best_val_loss, patience_counter, pc,
    run_start,          \* the length history had when fit was called
    \* train.py's main: args.species.split(',') (train.py:35)
    species_list,
    \* app.py: the global predictor and the temporary files left on disk
    predictor, app_state, temp_files,
    \* predict.py's main: its arguments and where it stands
    main_args, main_pc,
    \* the load_model calls in progress on the Predictor, one per thread
    load_pc,
    \* the last operation
    call

predictorVars == <<species_mapping, confidence_threshold, model, model_path,
                   is_loaded, weights_saved, weight_reads, fs, posix,
                   probabilities>>
loggerVars == <<current_session_path, files, logged, now>>
monitorVars == <<metrics_history, metrics_log>>
trainerVars == <<requires_grad, history, checkpoints, fit_args, epoch,
                 best_val_loss, patience_counter, pc, run_start>>
serviceVars == <<predictor, app_state, temp_files>>
scriptVars == <<main_args, main_pc>>
restVars == <<monitorVars, trainerVars, species_list, serviceVars, scriptVars,
              load_pc>>
vars == <<predictorVars, loggerVars, results, restVars, call>>

----------------------------------------------------------------------------
(* Bounds *)

MaxProb == 2        \* probability levels are 0..MaxProb
MaxBatch == 3       \* longest list handed to predict_batch
MaxReads == 2       \* torch.load attempts followed
MaxClock == 1       \* the clock runs over the seconds 0..MaxClock
MaxLog == 3         \* most lines followed in the log directory
MaxLogBatch == 2    \* longest list handed to log_batch
MaxHistory == 2     \* most entries of a monitor that records any metrics
MaxDrift == 11      \* most entries of a monitor that records accuracies
MaxEpochs == 7      \* most epochs a Trainer is followed through
MaxSpecies == 3     \* longest species list given to the training script
MaxTemp == 2        \* most temporary files left behind that are followed

(* Program constants *)

TopK == 3           \* predictor.py:98, k = min(3, N)

----------------------------------------------------------------------------
(* Small helpers *)

Min(a, b) == IF a <= b THEN a ELSE b

Range(s) == {s[i] : i \in DOMAIN s}

SeqsUpTo(S, n) == UNION {[1..k -> S] : k \in 0..n}

RECURSIVE SumSeq(_)
SumSeq(s) == IF s = <<>> THEN 0 ELSE Head(s) + SumSeq(Tail(s))

\* the sum of f over the set S
RECURSIVE SumOver(_, _)
SumOver(f, S) ==
    IF S = {} THEN 0
    ELSE LET x == CHOOSE y \in S : TRUE IN f[x] + SumOver(f, S \ {x})

RECURSIVE Concat(_)
Concat(ss) == IF ss = <<>> THEN <<>> ELSE Head(ss) \o Concat(Tail(ss))

Raise(type, msg) == [status |-> "raise", type |-> type, msg |-> msg]
Return(v) == [status |-> "return", value |-> v]

----------------------------------------------------------------------------
(* The directory tree the inference reads: every file that may exist, in   *)
(* the order the file system enumerates them.                              *)

Entries == <<
    [path |-> "cat.jpg",        suffix |-> ".jpg", depth |-> 0, image |-> TRUE],
    [path |-> "PHOTO.JPG",      suffix |-> ".JPG", depth |-> 0, image |-> TRUE],
    [path |-> "notes.txt",      suffix |-> ".txt", depth |-> 0, image |-> FALSE],
    [path |-> "sub/dog.png",    suffix |-> ".png", depth |-> 1, image |-> TRUE],
    [path |-> "sub/broken.bmp", suffix |-> ".bmp", depth |-> 1, image |-> FALSE] >>

AllPaths == {e.path : e \in Range(Entries)}

BatchPaths == {"cat.jpg", "notes.txt", "sub/dog.png"}

BatchInputs == SeqsUpTo(BatchPaths, MaxBatch)

EntryOf(p) == CHOOSE e \in Range(Entries) : e.path = p

\* str.lower() on the suffixes that occur
Lower(s) ==
    CASE s = ".JPG" -> ".jpg"
      [] OTHER -> s

AllSpecies == <<"Lion", "Elephant", "Zebra", "Giraffe">>

NoModel == [built |-> FALSE, weights |-> FALSE, eval |-> FALSE]

ModelNotLoaded == "Model not loaded. Call load_model() first."

----------------------------------------------------------------------------
(* Predictor.__init__ *)

Predictor(n, threshold) ==
    /\ species_mapping = [i \in 0..(n - 1) |-> AllSpecies[i + 1]]
    /\ confidence_threshold = threshold
    /\ model = NoModel
    /\ model_path = "models/wildlife_model.pt"
    /\ is_loaded = FALSE

num_classes == Cardinality(DOMAIN species_mapping)

(* Predictor.load_model *)

AlreadyLoadedIgnored == FALSE

AlreadyLoaded == is_loaded

load_model ==
    IF AlreadyLoaded
    THEN /\ call' = [op |-> "load_model", printed |-> FALSE,
                     out |-> Return("None")]
         /\ UNCHANGED <<model, is_loaded, weight_reads>>
    ELSE /\ weight_reads < MaxReads
         /\ weight_reads' = weight_reads + 1
         /\ IF weights_saved
            THEN /\ model' = [built |-> TRUE, weights |-> TRUE, eval |-> TRUE]
                 /\ is_loaded' = TRUE
                 /\ call' = [op |-> "load_model", printed |-> TRUE,
                             out |-> Return("None")]
            ELSE \* torch.load raises; the new, untrained model stays assigned
                 /\ model' = [built |-> TRUE, weights |-> FALSE, eval |-> FALSE]
                 /\ is_loaded' = is_loaded
                 /\ call' = [op |-> "load_model", printed |-> FALSE,
                             out |-> Raise("FileNotFoundError", model_path)]

LoadModel ==
    /\ load_model
    /\ UNCHANGED <<species_mapping, confidence_threshold, model_path,
                   weights_saved, fs, posix, probabilities, loggerVars,
                   results, restVars>>

(* load_model line by line, as each of several threads runs it on the same *)
(* Predictor.  Every line reads self.model anew, so a line acts on the     *)
(* model the attribute holds at that moment.                               *)

Threads == {"T1", "T2"}

LoadIdle == load_pc = [t \in Threads |-> "idle"]

Loading == {t \in Threads : load_pc[t] # "idle"}

\* model_class(num_classes=num_classes): random weights, training mode
untrained_model == [built |-> TRUE, weights |-> FALSE, eval |-> FALSE]

state_dict_skipped(m) == m

\* m.load_state_dict(torch.load(model_path, ...))
load_state_dict(m) == [m EXCEPT !.weights = TRUE]

\* m.to(device); m.eval()
eval_mode(m) == [m EXCEPT !.eval = TRUE]

\* predictor.py:56-57
LoadCheck(t) ==
    /\ load_pc[t] = "idle"
    /\ IF is_loaded
       THEN /\ load_pc' = load_pc
            /\ call' = [op |-> "load_model", thread |-> t, printed |-> FALSE,
                        out |-> Return("None")]
       ELSE /\ weight_reads + Cardinality(Loading) < MaxReads
            /\ load_pc' = [load_pc EXCEPT ![t] = "build"]
            /\ call' = [op |-> "load_model", thread |-> t, printed |-> FALSE,
                        out |-> Return("running")]
    /\ UNCHANGED <<species_mapping, confidence_threshold, model, model_path,
                   is_loaded, weights_saved, weight_reads, fs, posix,
                   probabilities, loggerVars, results, monitorVars, trainerVars,
                   species_list, serviceVars, scriptVars>>

\* predictor.py:59-60
LoadBuild(t) ==
    /\ load_pc[t] = "build"
    /\ model' = untrained_model
    /\ load_pc' = [load_pc EXCEPT ![t] = "read"]
    /\ UNCHANGED <<species_mapping, confidence_threshold, model_path,
                   is_loaded, weights_saved, weight_reads, fs, posix,
                   probabilities, loggerVars, results, monitorVars, trainerVars,
                   species_list, serviceVars, scriptVars, call>>

\* predictor.py:61
LoadRead(t) ==
    /\ load_pc[t] = "read"
    /\ weight_reads' = weight_reads + 1
    /\ IF weights_saved
       THEN /\ model' = load_state_dict(model)
            /\ load_pc' = [load_pc EXCEPT ![t] = "eval"]
            /\ call' = call
       ELSE /\ model' = model
            /\ load_pc' = [load_pc EXCEPT ![t] = "idle"]
            /\ call' = [op |-> "load_model", thread |-> t, printed |-> FALSE,
                        out |-> Raise("FileNotFoundError", model_path)]
    /\ UNCHANGED <<species_mapping, confidence_threshold, model_path,
                   is_loaded, weights_saved, fs, posix, probabilities,
                   loggerVars, results, monitorVars, trainerVars, species_list,
                   serviceVars, scriptVars>>

\* predictor.py:62-63
LoadEval(t) ==
    /\ load_pc[t] = "eval"
    /\ model' = eval_mode(model)
    /\ load_pc' = [load_pc EXCEPT ![t] = "flag"]
    /\ UNCHANGED <<species_mapping, confidence_threshold, model_path,
                   is_loaded, weights_saved, weight_reads, fs, posix,
                   probabilities, loggerVars, results, monitorVars, trainerVars,
                   species_list, serviceVars, scriptVars, call>>

\* predictor.py:64-65
LoadFlag(t) ==
    /\ load_pc[t] = "flag"
    /\ is_loaded' = TRUE
    /\ load_pc' = [load_pc EXCEPT ![t] = "idle"]
    /\ call' = [op |-> "load_model", thread |-> t, printed |-> TRUE,
                out |-> Return("None")]
    /\ UNCHANGED <<species_mapping, confidence_threshold, model, model_path,
                   weights_saved, weight_reads, fs, posix, probabilities,
                   loggerVars, results, monitorVars, trainerVars, species_list,
                   serviceVars, scriptVars>>

(* Trainer.save_model writes the weights file the Predictor loads *)
save_model ==
    /\ ~weights_saved
    /\ weights_saved' = TRUE
    /\ call' = [op |-> "save_model", out |-> Return("None")]
    /\ UNCHANGED <<species_mapping, confidence_threshold, model, model_path,
                   is_loaded, weight_reads, fs, posix, probabilities,
                   loggerVars, results, restVars>>

----------------------------------------------------------------------------
(* Predictor.predict_single *)

\* Image.open(image_path).convert('RGB') succeeds
Readable(image_path) == image_path \in fs /\ EntryOf(image_path).image

OpenError(image_path) ==
    IF image_path \in fs
    THEN Raise("UnidentifiedImageError", "cannot identify image file")
    ELSE Raise("FileNotFoundError", "No such file or directory")

\* torch.max(probabilities, 1): the first maximal value's index
ArgMax(probs) ==
    CHOOSE i \in DOMAIN probs :
        /\ \A j \in DOMAIN probs : probs[j] <= probs[i]
        /\ \A j \in DOMAIN probs : probs[j] = probs[i] => i <= j

TopKUnsorted(probs, k) ==
    {s \in [1..k -> DOMAIN probs] :
        /\ \A a, b \in 1..k : a < b => s[a] # s[b]
        /\ \A j \in DOMAIN probs \ Range(s) :
              \A a \in 1..k : probs[j] <= probs[s[a]]}

\* torch.topk(probs, k): the k largest values, sorted; which of several
\* equal values come first, or are kept at all, is not specified by torch
TopKOutcomes(probs, k) ==
    {s \in [1..k -> DOMAIN probs] :
        /\ \A a, b \in 1..k : a < b => s[a] # s[b] /\ probs[s[a]] >= probs[s[b]]
        /\ \A j \in DOMAIN probs \ Range(s) :
              \A a \in 1..k : probs[j] <= probs[s[a]]}

\* datetime.now().isoformat()
isoformat(t) == ToString(t)

PredictionResult(image_path, probs, top_indices) ==
    LET predicted_idx == ArgMax(probs)
        confidence == probs[predicted_idx]
    IN  [image_path |-> image_path,
         predicted_species |-> species_mapping[predicted_idx],
         confidence |-> confidence,
         is_confident |-> confidence >= confidence_threshold,
         top_predictions |->
            [a \in DOMAIN top_indices |->
                [species |-> species_mapping[top_indices[a]],
                 confidence |-> probs[top_indices[a]]]],
         timestamp |-> isoformat(now)]

\* every outcome one call can have
predict_single(image_path) ==
    IF ~is_loaded
    THEN {Raise("RuntimeError", ModelNotLoaded)}
    ELSE IF ~Readable(image_path)
    THEN {OpenError(image_path)}
    ELSE {Return(PredictionResult(image_path, probabilities, top)) :
            top \in TopKOutcomes(probabilities, Min(TopK, num_classes))}

PredictSingle ==
    \E image_path \in AllPaths :
        \E out \in predict_single(image_path) :
            /\ call' = [op |-> "predict_single", image_path |-> image_path,
                        out |-> out]
            /\ UNCHANGED <<predictorVars, loggerVars, results, restVars>>

----------------------------------------------------------------------------
(* Predictor.predict_batch *)

ErrorRecord(image_path, e) == [image_path |-> image_path, error |-> e.msg]

\* one pass of the loop body: the entry appended for image_path
BatchEntries(image_path) ==
    {IF o.status = "return" THEN o.value ELSE ErrorRecord(image_path, o) :
        o \in predict_single(image_path)}

RECURSIVE predict_batch_aborting(_)
predict_batch_aborting(image_paths) ==
    IF image_paths = <<>>
    THEN {<<>>}
    ELSE UNION {IF "error" \in DOMAIN e
                THEN {<<e>>}
                ELSE {<<e>> \o rest :
                        rest \in predict_batch_aborting(Tail(image_paths))} :
            e \in BatchEntries(Head(image_paths))}

\* every list of results one call can return
RECURSIVE predict_batch(_)
predict_batch(image_paths) ==
    IF image_paths = <<>>
    THEN {<<>>}
    ELSE {<<e>> \o rest :
            e \in BatchEntries(Head(image_paths)),
            rest \in predict_batch(Tail(image_paths))}

PredictBatch ==
    \E image_paths \in BatchInputs :
        \E rs \in predict_batch(image_paths) :
            /\ call' = [op |-> "predict_batch", image_paths |-> image_paths,
                        out |-> Return(rs)]
            /\ UNCHANGED <<predictorVars, loggerVars, results, restVars>>

----------------------------------------------------------------------------
(* Predictor.predict_directory *)

valid_extensions == {".jpg", ".jpeg", ".png", ".bmp"}

\* the orders in which a set of strings can be iterated
ExtOrders ==
    {o \in [1..Cardinality(valid_extensions) -> valid_extensions] :
        \A a, b \in DOMAIN o : a # b => o[a] # o[b]}

Exists(e) == e.path \in fs

\* fnmatch of a name against '*<ext>' as pathlib does it on this platform
Matches(e, ext) == IF posix THEN e.suffix = ext ELSE Lower(e.suffix) = ext

\* directory.rglob('*<ext>')
rglob(ext) ==
    LET hit(e) == Exists(e) /\ Matches(e, ext)
    IN  [i \in DOMAIN SelectSeq(Entries, hit) |-> SelectSeq(Entries, hit)[i].path]

\* [f for f in directory.glob('*') if f.suffix.lower() in valid_extensions]
glob_filtered ==
    LET hit(e) == Exists(e) /\ e.depth = 0 /\ Lower(e.suffix) \in valid_extensions
    IN  [i \in DOMAIN SelectSeq(Entries, hit) |-> SelectSeq(Entries, hit)[i].path]

\* the image_paths list built for one iteration order of valid_extensions
directory_image_paths(recursive, order) ==
    IF recursive
    THEN Concat([a \in DOMAIN order |-> rglob(order[a])])
    ELSE glob_filtered

PredictDirectory ==
    \E recursive \in BOOLEAN, order \in ExtOrders :
        LET image_paths == directory_image_paths(recursive, order)
        IN  \E rs \in predict_batch(image_paths) :
                /\ call' = [op |-> "predict_directory", recursive |-> recursive,
                            image_paths |-> image_paths, out |-> Return(rs)]
                /\ UNCHANGED <<predictorVars, loggerVars, results, restVars>>

----------------------------------------------------------------------------
(* Predictor.get_prediction_statistics *)

IsError(p) == "error" \in DOMAIN p

Valid(p) == ~IsError(p)

Confident(p) == Valid(p) /\ p.is_confident

\* species_counts, as the loop builds it
RECURSIVE SpeciesCounts(_)
SpeciesCounts(preds) ==
    IF preds = <<>>
    THEN <<>>
    ELSE LET rest == SpeciesCounts(SubSeq(preds, 1, Len(preds) - 1))
             species == preds[Len(preds)].predicted_species
         IN  IF species \in DOMAIN rest
             THEN [rest EXCEPT ![species] = @ + 1]
             ELSE [s \in DOMAIN rest \cup {species} |->
                     IF s = species THEN 1 ELSE rest[s]]

\* a / b; den = 0 stands for the ZeroDivisionError the division raises
Divide(a, b) == [num |-> a, den |-> b]

Zero == [num |-> 0, den |-> 1]

UnguardedRatio(a, valid_predictions) == Divide(a, Len(valid_predictions))

\* a / len(valid_predictions) if valid_predictions else 0
GuardedRatio(a, valid_predictions) ==
    IF valid_predictions # <<>> THEN Divide(a, Len(valid_predictions)) ELSE Zero

get_prediction_statistics(predictions) ==
    LET valid_predictions == SelectSeq(predictions, Valid)
        confident_predictions == SelectSeq(valid_predictions, Confident)
        total_confidence ==
            SumSeq([i \in DOMAIN valid_predictions |->
                        valid_predictions[i].confidence])
        stats ==
            [total_predictions |-> Len(valid_predictions),
             confident_predictions |-> Len(confident_predictions),
             confidence_rate |->
                GuardedRatio(Len(confident_predictions), valid_predictions),
             average_confidence |->
                GuardedRatio(total_confidence, valid_predictions),
             species_distribution |-> SpeciesCounts(valid_predictions),
             errors |-> Len(predictions) - Len(valid_predictions)]
    IN  IF stats.confidence_rate.den = 0 \/ stats.average_confidence.den = 0
        THEN Raise("ZeroDivisionError", "division by zero")
        ELSE Return(stats)

\* the results handed to get_prediction_statistics: what predict_batch can
\* put in a list
SampleResults ==
    {[image_path |-> "cat.jpg", predicted_species |-> sp, confidence |-> c,
      is_confident |-> c >= confidence_threshold,
      top_predictions |-> <<[species |-> sp, confidence |-> c]>>,
      timestamp |-> isoformat(0)] : sp \in {"Lion", "Zebra"}, c \in 0..MaxProb}
    \cup {[image_path |-> "notes.txt", error |-> "cannot identify image file"]}

\* stats = predictor.get_prediction_statistics(results)
GetPredictionStatistics ==
    /\ call' = [op |-> "get_prediction_statistics",
                out |-> get_prediction_statistics(results)]
    /\ UNCHANGED <<predictorVars, loggerVars, results, restVars>>

----------------------------------------------------------------------------
(* PredictionLogger.  A session file is named by the second at which its   *)
(* logger was constructed (strftime('%Y%m%d_%H%M%S'), monitor.py:28); all  *)
(* loggers share one log_dir.                                              *)

Loggers == {"L1", "L2"}

Sessions == 0..MaxClock

NoSession == -1

NoFile == [exists |-> FALSE, lines |-> <<>>]

LoggerIdle ==
    /\ now = 0
    /\ current_session_path = [l \in Loggers |-> NoSession]
    /\ files = [t \in Sessions |-> NoFile]
    /\ logged = [l \in Loggers |-> <<>>]

\* datetime.now() advances
Tick ==
    /\ now < MaxClock
    /\ now' = now + 1
    /\ UNCHANGED <<predictorVars, current_session_path, files, logged, results, restVars,
                   call>>

\* PredictionLogger.__init__ and _create_new_session
PredictionLogger(l) ==
    /\ current_session_path[l] = NoSession
    /\ current_session_path' = [current_session_path EXCEPT ![l] = now]
    /\ call' = [op |-> "PredictionLogger", logger |-> l, out |-> Return("None")]
    /\ UNCHANGED <<predictorVars, now, files, logged, results, restVars>>

\* json.dumps: the members of the dict in insertion order, each value as
\* its JSON token
KeyOrder == <<"image_path", "predicted_species", "confidence", "is_confident",
              "top_predictions", "timestamp", "error">>

JsonString(v) == [json |-> "string", text |-> v]
\* a number written with too few digits
JsonNumberRounded(v) == [json |-> "number", digits |-> IF v > 0 THEN 1 ELSE 0]

\* a float is written with the digits that read back as the same float
JsonNumber(v) == [json |-> "number", digits |-> v]
JsonBool(v) == [json |-> IF v THEN "true" ELSE "false"]
JsonArray(v) == [json |-> "array", items |-> v]

Encode(key, v) ==
    CASE key \in {"image_path", "predicted_species", "error"} -> JsonString(v)
      [] key = "timestamp" -> JsonString(v)
      [] key = "confidence" -> JsonNumber(v)
      [] key = "is_confident" -> JsonBool(v)
      [] key = "top_predictions" ->
            JsonArray([a \in DOMAIN v |->
                <<[key |-> "species", value |-> JsonString(v[a].species)],
                  [key |-> "confidence", value |-> JsonNumber(v[a].confidence)]>>])

dumps(prediction) ==
    LET present(k) == k \in DOMAIN prediction
        keys == SelectSeq(KeyOrder, present)
    IN  [i \in DOMAIN keys |->
            [key |-> keys[i], value |-> Encode(keys[i], prediction[keys[i]])]]

\* json.loads of one line
Decode(token) ==
    CASE token.json = "string" -> token.text
      [] token.json = "number" -> token.digits
      [] token.json = "true" -> TRUE
      [] token.json = "false" -> FALSE
      [] token.json = "array" ->
            [a \in DOMAIN token.items |->
                [species |-> token.items[a][1].value.text,
                 confidence |-> token.items[a][2].value.digits]]

loads(line) ==
    [k \in {line[i].key : i \in DOMAIN line} |->
        Decode(line[CHOOSE i \in DOMAIN line : line[i].key = k].value)]

\* open(path, 'w') then write: what was in the file is lost
write_truncating(file, line) == [exists |-> TRUE, lines |-> <<line>>]

\* with open(path, 'a') as f: f.write(line + '\n')
write_appending(file, line) == [exists |-> TRUE, lines |-> Append(file.lines, line)]

\* the log directory after log_prediction(prediction) through session path
log_prediction(dir, path, prediction) ==
    [dir EXCEPT ![path] = write_appending(dir[path], dumps(prediction))]

\* the log directory after log_batch(predictions)
RECURSIVE log_batch(_, _, _)
log_batch(dir, path, predictions) ==
    IF predictions = <<>>
    THEN dir
    ELSE log_batch(log_prediction(dir, path, Head(predictions)), path,
                   Tail(predictions))

\* the results that reach the logger: predictions and error records
LogSamples ==
    {[image_path |-> "cat.jpg", predicted_species |-> "Lion",
      confidence |-> MaxProb, is_confident |-> TRUE,
      top_predictions |-> <<[species |-> "Lion", confidence |-> MaxProb],
                            [species |-> "Zebra", confidence |-> 1]>>,
      timestamp |-> isoformat(0)],
     [image_path |-> "sub/dog.png", predicted_species |-> "Zebra",
      confidence |-> 1, is_confident |-> FALSE,
      top_predictions |-> <<[species |-> "Zebra", confidence |-> 1],
                            [species |-> "Lion", confidence |-> 0]>>,
      timestamp |-> isoformat(0)],
     [image_path |-> "notes.txt", error |-> "cannot identify image file"]}

\* lines in the log directory
TotalLines == SumOver([t \in Sessions |-> Len(files[t].lines)], Sessions)

LogPrediction(l) ==
    \E prediction \in LogSamples :
        LET path == current_session_path[l]
        IN  /\ path # NoSession
            /\ TotalLines < MaxLog
            /\ files' = log_prediction(files, path, prediction)
            /\ logged' = [logged EXCEPT ![l] = Append(@, prediction)]
            /\ call' = [op |-> "log_prediction", logger |-> l,
                        out |-> Return("None")]
            /\ UNCHANGED <<predictorVars, now, current_session_path, results, restVars>>

LogBatch(l) ==
    \E predictions \in SeqsUpTo(LogSamples, MaxLogBatch) :
        LET path == current_session_path[l]
        IN  /\ path # NoSession
            /\ TotalLines + Len(predictions) <= MaxLog
            /\ files' = log_batch(files, path, predictions)
            /\ logged' = [logged EXCEPT ![l] = @ \o predictions]
            /\ call' = [op |-> "log_batch", logger |-> l,
                        out |-> Return("None")]
            /\ UNCHANGED <<predictorVars, now, current_session_path, results, restVars>>

(* PredictionLogger.get_session_statistics *)

\* Path(session_file) if session_file else self.current_session_path
log_file_ignoring_argument(l, session_file) == current_session_path[l]

log_file(l, session_file) ==
    IF session_file # NoSession THEN session_file ELSE current_session_path[l]

\* species_counts after the loop over the parsed records
RECURSIVE session_species_counts(_)
session_species_counts(predictions) ==
    IF predictions = <<>>
    THEN <<>>
    ELSE LET rest == session_species_counts(SubSeq(predictions, 1, Len(predictions) - 1))
             pred == predictions[Len(predictions)]
         IN  IF "error" \in DOMAIN pred
             THEN rest
             ELSE IF pred.predicted_species \in DOMAIN rest
             THEN [rest EXCEPT ![pred.predicted_species] = @ + 1]
             ELSE [s \in DOMAIN rest \cup {pred.predicted_species} |->
                     IF s = pred.predicted_species THEN 1 ELSE rest[s]]

SeqMin(s) == CHOOSE x \in Range(s) : \A y \in Range(s) : x <= y
SeqMax(s) == CHOOSE x \in Range(s) : \A y \in Range(s) : x >= y

\* np.std(s), given by its square: mean of squares minus square of the mean
StdSquared(s) ==
    Divide(Len(s) * SumSeq([i \in DOMAIN s |-> s[i] * s[i]]) - SumSeq(s) * SumSeq(s),
           Len(s) * Len(s))

EmptyDict == <<>>

get_session_statistics(l, session_file) ==
    LET file == files[log_file(l, session_file)]
        predictions == [i \in DOMAIN file.lines |-> loads(file.lines[i])]
        successes == SelectSeq(predictions, Valid)
        confidence_scores == [i \in DOMAIN successes |-> successes[i].confidence]
        error_count == Len(predictions) - Len(successes)
    IN  IF ~file.exists
        THEN EmptyDict
        ELSE [total_predictions |-> Len(predictions),
              successful_predictions |-> Len(predictions) - error_count,
              errors |-> error_count,
              average_confidence |->
                 IF confidence_scores # <<>>
                 THEN Divide(SumSeq(confidence_scores), Len(confidence_scores))
                 ELSE Zero,
              min_confidence |->
                 IF confidence_scores # <<>> THEN SeqMin(confidence_scores) ELSE 0,
              max_confidence |->
                 IF confidence_scores # <<>> THEN SeqMax(confidence_scores) ELSE 0,
              std_confidence |->
                 IF confidence_scores # <<>> THEN StdSquared(confidence_scores) ELSE Zero,
              species_distribution |-> session_species_counts(predictions)]

GetSessionStatistics(l) ==
    \E session_file \in Sessions \cup {NoSession} :
        /\ current_session_path[l] # NoSession
        /\ call' = [op |-> "get_session_statistics", logger |-> l,
                    session_file |-> session_file,
                    out |-> Return(get_session_statistics(l, session_file))]
        /\ UNCHANGED <<predictorVars, loggerVars, results, restVars>>

----------------------------------------------------------------------------
(* ModelMonitor.  An accuracy and a drift threshold are whole numbers of   *)
(* units of 0.05 (18 is 0.90, 1 is 0.05); a mean is a quotient.            *)

Recent == 10            \* monitor.py:167, metrics_history[-10:]
EnoughData == 2         \* monitor.py:164, len(self.metrics_history) < 2

NoVersion == "None"

ModelVersions == {NoVersion, "resnet50"}

AccLevels == {14, 18}

Thresholds == {-1, 0, 1, 2}

\* what record_metrics is given: named metrics, one of them under the name
\* the time stamp has
MetricSamples ==
    {[accuracy |-> a] : a \in AccLevels}
        \cup {[loss |-> 3], [accuracy |-> 18, loss |-> 3],
              [timestamp |-> "1999-12-31"]}

AccuracySamples == {[accuracy |-> a] : a \in AccLevels}

\* ModelMonitor.__init__ on a metrics_dir no monitor has written to
MonitorIdle ==
    /\ metrics_history = <<>>
    /\ metrics_log = NoFile

\* {'timestamp': ..., 'model_version': ..., **metrics}: a later key of the
\* same name replaces the value of the earlier one
metric_entry(metrics, model_version) ==
    LET stamps == [timestamp |-> isoformat(now), model_version |-> model_version]
    IN  [k \in DOMAIN stamps \cup DOMAIN metrics |->
            IF k \in DOMAIN metrics THEN metrics[k] ELSE stamps[k]]

MetricKeyOrder == <<"timestamp", "model_version", "accuracy", "loss">>

JsonNull == [json |-> "null"]

EncodeMetric(key, v) ==
    CASE key = "timestamp" -> JsonString(v)
      [] key = "model_version" -> IF v = NoVersion THEN JsonNull ELSE JsonString(v)
      [] OTHER -> JsonNumber(v)

\* json.dumps(metric_entry)
dumps_metrics(entry) ==
    LET present(k) == k \in DOMAIN entry
        keys == SelectSeq(MetricKeyOrder, present)
    IN  [i \in DOMAIN keys |->
            [key |-> keys[i], value |-> EncodeMetric(keys[i], entry[keys[i]])]]

\* record_metrics(metrics, model_version), for metrics of `samples`: the
\* entry joins the history, then the file is opened and written, which the
\* disk may refuse
RecordMetrics(samples, versions, disk, most) ==
    \E metrics \in samples, model_version \in versions, writable \in disk :
        /\ Len(metrics_history) < most
        /\ LET entry == metric_entry(metrics, model_version)
           IN  /\ metrics_history' = Append(metrics_history, entry)
               /\ IF writable
                  THEN /\ metrics_log' = write_appending(metrics_log, dumps_metrics(entry))
                       /\ call' = [op |-> "record_metrics", metrics |-> metrics,
                                   model_version |-> model_version,
                                   out |-> Return("None")]
                  ELSE \* open(metrics_file, 'a') or f.write raises
                       /\ metrics_log' = metrics_log
                       /\ call' = [op |-> "record_metrics", metrics |-> metrics,
                                   model_version |-> model_version,
                                   out |-> Raise("OSError", "metrics_log.jsonl")]
        /\ UNCHANGED <<predictorVars, loggerVars, results, trainerVars,
                       species_list, scriptVars, load_pc, serviceVars>>

\* m.get(key, default)
Get(m, key, default) == IF key \in DOMAIN m THEN m[key] ELSE default

\* s[-n:] taken over the whole list
LastNAll(s, n) == s

\* s[-n:]
LastN(s, n) == SubSeq(s, IF Len(s) > n THEN Len(s) - n + 1 ELSE 1, Len(s))

\* the guard that never finds too little data
insufficient_data_never(metrics) == Len(metrics) < 1

insufficient_data(metrics) == Len(metrics) < EnoughData

\* a - q and q > t for a quotient q
Minus(a, q) == Divide(a * q.den - q.num, q.den)
Greater(q, t) == q.num > t * q.den

detect_performance_drift(threshold) ==
    IF insufficient_data(metrics_history)
    THEN [drift_detected |-> FALSE, reason |-> "Insufficient data"]
    ELSE LET recent == LastN(metrics_history, Recent)
             oldest == metrics_history[1]
             recent_acc ==
                 Divide(SumSeq([i \in DOMAIN recent |-> Get(recent[i], "accuracy", 0)]),
                        Len(recent))
             oldest_acc == Get(oldest, "accuracy", 0)
             accuracy_drop == Minus(oldest_acc, recent_acc)
         IN  [drift_detected |-> Greater(accuracy_drop, threshold),
              accuracy_drop |-> accuracy_drop,
              threshold |-> threshold,
              oldest_accuracy |-> oldest_acc,
              recent_accuracy |-> recent_acc,
              recommendation |->
                  IF Greater(accuracy_drop, threshold)
                  THEN "Retrain model" ELSE "Model performing well"]

DetectPerformanceDrift ==
    \E threshold \in Thresholds :
        /\ call' = [op |-> "detect_performance_drift", threshold |-> threshold,
                    out |-> Return(detect_performance_drift(threshold))]
        /\ UNCHANGED <<predictorVars, loggerVars, results, restVars>>

\* a metric read from every entry, 0 where an entry has none
values_defaulted(metrics, key) ==
    [i \in DOMAIN metrics |-> Get(metrics[i], key, 0)]

\* [m.get(key) for m in self.metrics_history if key in m]
values_present(metrics, key) ==
    LET has(m) == key \in DOMAIN m
        carrying == SelectSeq(metrics, has)
    IN  [i \in DOMAIN carrying |-> carrying[i][key]]

get_performance_report ==
    IF metrics_history = <<>>
    THEN EmptyDict
    ELSE LET accuracies == values_present(metrics_history, "accuracy")
             losses == values_present(metrics_history, "loss")
         IN  [total_evaluations |-> Len(metrics_history),
              average_accuracy |->
                  IF accuracies # <<>>
                  THEN Divide(SumSeq(accuracies), Len(accuracies)) ELSE Zero,
              max_accuracy |-> IF accuracies # <<>> THEN SeqMax(accuracies) ELSE 0,
              min_accuracy |-> IF accuracies # <<>> THEN SeqMin(accuracies) ELSE 0,
              average_loss |->
                  IF losses # <<>> THEN Divide(SumSeq(losses), Len(losses)) ELSE Zero,
              min_loss |-> IF losses # <<>> THEN SeqMin(losses) ELSE 0,
              max_loss |-> IF losses # <<>> THEN SeqMax(losses) ELSE 0,
              last_evaluation |-> metrics_history[Len(metrics_history)]]

GetPerformanceReport ==
    /\ call' = [op |-> "get_performance_report",
                out |-> Return(get_performance_report)]
    /\ UNCHANGED <<predictorVars, loggerVars, results, restVars>>

----------------------------------------------------------------------------
(* Trainer.fit.  One step starts the call (trainer.py:205-216), one step   *)
(* runs one pass of the epoch loop (trainer.py:218-255), one step returns  *)
(* (trainer.py:257-258).  train_epoch and validate are opaque: a loss is a *)
(* level, an accuracy a fixed number.  The learning-rate scheduler and the *)
(* MLflow calls change nothing that is followed here.                      *)

max_patience == 5       \* trainer.py:211
Infinity == 99          \* trainer.py:209, float('inf'): above every loss

LossLevels == {1, 2}

TrainOutcomes == {[loss |-> 2, acc |-> 50]}

ValOutcomes == {[loss |-> l, acc |-> 60] : l \in LossLevels}

EpochChoices == {0, 2, MaxEpochs}

UnfreezeChoices == {0, 2, MaxEpochs}

\* requires_grad of the model's parameters: False on all but the last one
\* (trainer.py:58-61), or True on every one (trainer.py:63-66)
BackboneFrozen == "BackboneFrozen"
FullyUnfrozen == "FullyUnfrozen"

freeze_backbone(flags) == BackboneFrozen

unfreeze_backbone(flags) == FullyUnfrozen

NoArgs == [epochs |-> 0, freeze_backbone |-> FALSE, unfreeze_at_epoch |-> 0]

EmptyHistory == [train_loss |-> <<>>, train_acc |-> <<>>,
                 val_loss |-> <<>>, val_acc |-> <<>>]

\* a new WildlifeModel and a new Trainer around it, no fit call made
TrainerIdle ==
    /\ requires_grad = FullyUnfrozen
    /\ history = EmptyHistory
    /\ checkpoints = <<>>
    /\ fit_args = NoArgs
    /\ epoch = 0
    /\ best_val_loss = Infinity
    /\ patience_counter = 0
    /\ pc = "idle"
    /\ run_start = 0

\* fit(train_loader, val_loader, epochs, freeze_backbone, unfreeze_at_epoch)
\* up to the epoch loop
FitStart ==
    \E epochs \in EpochChoices, freeze \in BOOLEAN,
       unfreeze_at_epoch \in UnfreezeChoices :
        /\ pc = "idle"
        /\ Len(history.val_loss) + epochs <= MaxEpochs
        /\ fit_args' = [epochs |-> epochs, freeze_backbone |-> freeze,
                        unfreeze_at_epoch |-> unfreeze_at_epoch]
        /\ requires_grad' = IF freeze THEN freeze_backbone(requires_grad)
                            ELSE requires_grad
        /\ best_val_loss' = Infinity
        /\ patience_counter' = 0
        /\ epoch' = 0
        /\ run_start' = Len(history.val_loss)
        /\ pc' = IF epochs >= 1 THEN "loop" ELSE "done"
        /\ call' = [op |-> "fit_start", out |-> Return("None")]
        /\ UNCHANGED <<predictorVars, loggerVars, results, monitorVars,
                       history, checkpoints, species_list, scriptVars, load_pc, serviceVars>>

\* the backbone is unfreezed from some epoch on
unfreeze_from(e, args) == e >= args.unfreeze_at_epoch /\ args.freeze_backbone

\* if epoch == unfreeze_at_epoch and freeze_backbone
unfreeze_now(e, args) == e = args.unfreeze_at_epoch /\ args.freeze_backbone

\* a loss that is no worse counts as better
improved_or_equal(val_loss, best) == val_loss <= best

\* if val_loss < best_val_loss
improved(val_loss, best) == val_loss < best

\* the four appends, the last one forgotten
record_epoch_short(h, train, val) ==
    [train_loss |-> Append(h.train_loss, train.loss),
     train_acc |-> Append(h.train_acc, train.acc),
     val_loss |-> Append(h.val_loss, val.loss),
     val_acc |-> h.val_acc]

\* self.history[...].append(...), trainer.py:231-234
record_epoch(h, train, val) ==
    [train_loss |-> Append(h.train_loss, train.loss),
     train_acc |-> Append(h.train_acc, train.acc),
     val_loss |-> Append(h.val_loss, val.loss),
     val_acc |-> Append(h.val_acc, val.acc)]

\* _save_checkpoint(epoch, val_acc): the file named by epoch and accuracy,
\* holding the history as it is now
save_checkpoint(e, val_acc, h) ==
    [epoch |-> e, val_acc |-> val_acc, history |-> h]

\* the break that never comes
patience_spent_never(counter) == FALSE

\* if patience_counter >= max_patience: break
patience_spent(counter) == counter >= max_patience

\* one pass of: for epoch in range(1, epochs + 1)
Epoch ==
    \E train \in TrainOutcomes, val \in ValOutcomes :
        LET e == epoch + 1
            flags == IF unfreeze_now(e, fit_args)
                     THEN unfreeze_backbone(requires_grad) ELSE requires_grad
            h == record_epoch(history, train, val)
            better == improved(val.loss, best_val_loss)
            counter == IF better THEN 0 ELSE patience_counter + 1
            break == ~better /\ patience_spent(counter)
        IN  /\ pc = "loop"
            /\ epoch' = e
            /\ requires_grad' = flags
            /\ history' = h
            /\ best_val_loss' = IF better THEN val.loss ELSE best_val_loss
            /\ patience_counter' = counter
            /\ checkpoints' = IF better
                              THEN Append(checkpoints, save_checkpoint(e, val.acc, h))
                              ELSE checkpoints
            /\ pc' = IF break \/ e >= fit_args.epochs THEN "done" ELSE "loop"
            /\ call' = [op |-> "epoch", epoch |-> e, trained |-> flags,
                        val_loss |-> val.loss, out |-> Return("None")]
            /\ UNCHANGED <<predictorVars, loggerVars, results, monitorVars,
                           fit_args, run_start, species_list, scriptVars, load_pc, serviceVars>>

\* return self.history
FitReturn ==
    /\ pc = "done"
    /\ pc' = "idle"
    /\ call' = [op |-> "fit", out |-> Return(history)]
    /\ UNCHANGED <<predictorVars, loggerVars, results, monitorVars,
                   requires_grad, history, checkpoints, fit_args, epoch,
                   best_val_loss, patience_counter, run_start, species_list, scriptVars, load_pc,
                   serviceVars>>

----------------------------------------------------------------------------
(* train.py's main: the species mapping and the number of classes          *)

\* the species names a command line gives, in the order of Python's str <
SortedNames == <<"elephant", "giraffe", "lion", "zebra">>

NameRank(name) == CHOOSE i \in DOMAIN SortedNames : SortedNames[i] = name

\* train.py run without arguments yet
MappingIdle == species_list = <<>>

\* sorted(species_list)
RECURSIVE sorted(_)
sorted(list) ==
    IF list = <<>> THEN <<>>
    ELSE LET least == CHOOSE i \in DOMAIN list :
                         \A j \in DOMAIN list :
                            \/ NameRank(list[i]) < NameRank(list[j])
                            \/ NameRank(list[i]) = NameRank(list[j]) /\ i <= j
             rest == [k \in 1..(Len(list) - 1) |->
                         IF k < least THEN list[k] ELSE list[k + 1]]
         IN  <<list[least]>> \o sorted(rest)

\* {species: idx for idx, species in enumerate(sorted(species_list))}: a
\* key met again keeps its place and takes the later value
create_species_mapping(list) ==
    LET s == sorted(list)
    IN  [species \in Range(s) |->
            (CHOOSE i \in DOMAIN s :
                s[i] = species /\ \A j \in DOMAIN s : s[j] = species => j <= i) - 1]

\* train.py:35-60: the mapping and num_classes=len(species_mapping)
CreateSpeciesMapping ==
    LET mapping == create_species_mapping(species_list)
    IN  /\ call' = [op |-> "create_species_mapping",
                    num_classes |-> Cardinality(DOMAIN mapping),
                    out |-> Return(mapping)]
        /\ UNCHANGED <<predictorVars, loggerVars, results, restVars>>

----------------------------------------------------------------------------
(* The prediction service (app.py).  A message is the list of its words,   *)
(* in lower case.                                                          *)

NoPredictor == "None"

MODEL_VERSION == "resnet50_v1"

\* the module has been imported: predictor = None, no temporary file
ServiceIdle ==
    /\ predictor = NoPredictor
    /\ app_state = "imported"
    /\ temp_files = 0

\* the startup handler (app.py:67-103); an exception ends the server
Startup ==
    \E mapping_readable \in BOOLEAN :
        /\ app_state = "imported"
        /\ IF ~mapping_readable
           THEN /\ call' = [op |-> "startup",
                            out |-> Raise("FileNotFoundError", "species_mapping.json")]
                /\ app_state' = "exited"
                /\ UNCHANGED <<predictor, model, is_loaded, weight_reads>>
           ELSE /\ predictor' = "Predictor"
                /\ load_model
                /\ app_state' = IF weights_saved THEN "serving" ELSE "exited"
        /\ UNCHANGED <<species_mapping, confidence_threshold, model_path,
                       weights_saved, fs, posix, probabilities, loggerVars,
                       results, monitorVars, trainerVars, species_list, scriptVars, load_pc,
                       temp_files>>

NoContentType == [type |-> "", subtype |-> ""]

ContentTypes == {NoContentType, [type |-> "image", subtype |-> "jpeg"],
                 [type |-> "text", subtype |-> "plain"]}

\* what the uploaded bytes are
Contents == {"image", "truncated image", "text"}

\* how far the handler gets with the temporary file
Disk == {"no file", "not written", "written"}

\* needle in haystack, for lists of words
Contains(haystack, needle) ==
    \E i \in 0..(Len(haystack) - Len(needle)) :
        \A j \in DOMAIN needle : haystack[i + j] = needle[j]

\* predictor.predict_single(temp_file_path): Image.open(...).convert('RGB')
\* on the bytes, then the forward pass (predictor.py:84-94)
predict_upload(content) ==
    CASE content = "text" ->
            {Raise("UnidentifiedImageError", <<"cannot", "identify", "image", "file">>)}
      [] content = "truncated image" ->
            {Raise("OSError", <<"image", "file", "is", "truncated">>)}
      [] content = "image" ->
            {Return(PredictionResult("tmp", probabilities, top)) :
                top \in TopKOutcomes(probabilities, Min(TopK, num_classes))}
                \cup {Raise("RuntimeError", <<"out", "of", "memory">>)}

HTTPException(status_code, detail) ==
    [status_code |-> status_code, detail |-> detail]

\* an exception no handler catches: the server answers 500
ServerError == [status_code |-> 500, detail |-> <<"internal", "server", "error">>]

\* the except branch's answer to exception e (app.py:173-183)
error_response(e) ==
    IF \/ Contains(e.msg, <<"cannot", "identify", "image", "file">>)
       \/ Contains(e.msg, <<"corrupted">>)
    THEN HTTPException(400, <<"invalid", "or", "corrupted", "image", "file">> \o e.msg)
    ELSE HTTPException(500, <<"model", "inference", "failed">> \o e.msg)

\* the answer to POST /predict and the temporary files it leaves behind;
\* `removable` says whether os.unlink of the temporary file succeeds
predict(content_type, content, disk, removable) ==
    IF predictor = NoPredictor \/ ~is_loaded
    THEN {[response |-> HTTPException(503, <<"model", "not", "loaded">>), left |-> 0]}
    ELSE IF content_type = NoContentType \/ content_type.type # "image"
    THEN {[response |-> HTTPException(400, <<"invalid", "file", "type">>), left |-> 0]}
    ELSE IF disk = "no file"
    THEN \* NamedTemporaryFile raises: temp_file is still None
         {[response |-> error_response(Raise("OSError", <<"no", "space", "left">>)),
           left |-> 0]}
    ELSE IF disk = "not written"
    THEN \* image.read() or temp_file.write raises: temp_file is set,
         \* temp_file_path is not, and both clean-ups raise UnboundLocalError
         {[response |-> ServerError, left |-> 1]}
    ELSE {IF o.status = "return"
          THEN \* finally: unlink, and pass if it raises
               [response |->
                   [status_code |-> 200,
                    body |-> [predicted_species |-> o.value.predicted_species,
                              confidence |-> o.value.confidence,
                              is_confident |-> o.value.is_confident,
                              top_predictions |-> o.value.top_predictions,
                              model_version |-> MODEL_VERSION,
                              timestamp |-> o.value.timestamp]],
                left |-> IF removable THEN 0 ELSE 1]
          ELSE IF removable
          THEN [response |-> error_response(o), left |-> 0]
          ELSE \* os.unlink raises inside the except branch, before the
               \* answer is chosen; the finally branch swallows its own
               [response |-> ServerError, left |-> 1] :
          o \in predict_upload(content)}

Predict ==
    \E content_type \in ContentTypes, content \in Contents, disk \in Disk,
       removable \in BOOLEAN :
        \E answer \in predict(content_type, content, disk, removable) :
            /\ app_state # "exited"
            /\ temp_files + answer.left <= MaxTemp
            /\ temp_files' = temp_files + answer.left
            /\ call' = [op |-> "predict", content_type |-> content_type,
                        content |-> content, disk |-> disk,
                        removable |-> removable, left |-> answer.left,
                        out |-> Return(answer.response)]
            /\ UNCHANGED <<predictorVars, loggerVars, results, monitorVars,
                           trainerVars, species_list, scriptVars, load_pc, predictor, app_state>>

----------------------------------------------------------------------------
(* The inference script (predict.py): main, in three steps                 *)

NoMainArgs == [image |-> "", directory |-> FALSE, recursive |-> FALSE]

\* --image PATH, or --directory with or without --recursive, or neither
MainArgs ==
    {[image |-> p, directory |-> FALSE, recursive |-> FALSE] : p \in AllPaths}
        \cup {[image |-> "", directory |-> TRUE, recursive |-> r] : r \in BOOLEAN}
        \cup {NoMainArgs}

ScriptIdle ==
    /\ main_args = NoMainArgs
    /\ main_pc = "start"

\* the logger main constructs
MainLogger == "L1"

\* predict.py:35-55: the Predictor, load_model, the PredictionLogger
MainStart ==
    \E args \in MainArgs :
        /\ main_pc = "start"
        /\ main_args' = args
        /\ load_model
        /\ IF weights_saved
           THEN /\ current_session_path' =
                      [current_session_path EXCEPT ![MainLogger] = now]
                /\ main_pc' = "predict"
           ELSE /\ current_session_path' = current_session_path
                /\ main_pc' = "raised"
        /\ UNCHANGED <<species_mapping, confidence_threshold, model_path,
                       weights_saved, fs, posix, probabilities, now, files,
                       logged, results, monitorVars, trainerVars, species_list,
                       serviceVars, load_pc>>

\* predict.py:62-74: --image
MainImage ==
    \E out \in predict_single(main_args.image) :
        /\ main_pc = "predict"
        /\ main_args.image # ""
        /\ IF out.status = "raise"
           THEN /\ main_pc' = "raised"
                /\ call' = [op |-> "main", out |-> out]
                /\ UNCHANGED <<files, logged, results>>
           ELSE /\ main_pc' = "stats"
                /\ files' = log_prediction(files, current_session_path[MainLogger],
                                           out.value)
                /\ logged' = [logged EXCEPT ![MainLogger] = Append(@, out.value)]
                /\ results' = <<out.value>>
                /\ call' = [op |-> "log_prediction", logger |-> MainLogger,
                            out |-> Return("None")]
        /\ UNCHANGED <<predictorVars, now, current_session_path, monitorVars,
                       trainerVars, species_list, serviceVars, main_args, load_pc>>

\* predict.py:76-103: --directory
MainDirectory ==
    \E order \in ExtOrders :
        \E rs \in predict_batch(directory_image_paths(main_args.recursive, order)) :
            LET stats == get_prediction_statistics(rs)
            IN  /\ main_pc = "predict"
                /\ main_args.image = "" /\ main_args.directory
                /\ results' = rs
                /\ files' = log_batch(files, current_session_path[MainLogger], rs)
                /\ logged' = [logged EXCEPT ![MainLogger] = @ \o rs]
                /\ main_pc' = IF stats.status = "raise" THEN "raised" ELSE "stats"
                /\ call' = [op |-> "get_prediction_statistics", out |-> stats]
                /\ UNCHANGED <<predictorVars, now, current_session_path,
                               monitorVars, trainerVars, species_list,
                               serviceVars, main_args, load_pc>>

\* predict.py:105-107: neither
MainNeither ==
    /\ main_pc = "predict"
    /\ main_args.image = "" /\ ~main_args.directory
    /\ main_pc' = "returned"
    /\ call' = [op |-> "main", out |-> Return("None")]
    /\ UNCHANGED <<predictorVars, loggerVars, results, monitorVars, trainerVars,
                   species_list, serviceVars, main_args, load_pc>>

\* predict.py:109-114: the session statistics and the two fields printed
MainStats ==
    LET session_stats == get_session_statistics(MainLogger, NoSession)
    IN  /\ main_pc = "stats"
        /\ IF "total_predictions" \in DOMAIN session_stats
           THEN /\ main_pc' = "returned"
                /\ call' = [op |-> "main",
                            out |-> Return([total |-> session_stats.total_predictions,
                                            average_confidence |->
                                                session_stats.average_confidence])]
           ELSE /\ main_pc' = "raised"
                /\ call' = [op |-> "main",
                            out |-> Raise("KeyError", "total_predictions")]
        /\ UNCHANGED <<predictorVars, loggerVars, results, monitorVars, trainerVars,
                       species_list, serviceVars, main_args, load_pc>>

RestIdle ==
    /\ MonitorIdle
    /\ TrainerIdle
    /\ MappingIdle
    /\ ServiceIdle
    /\ ScriptIdle
    /\ LoadIdle

----------------------------------------------------------------------------
(* Specifications of the Predictor *)

NoCall == [op |-> "none", out |-> Return("None")]

World ==
    /\ weights_saved \in BOOLEAN
    /\ weight_reads = 0
    /\ call = NoCall
    /\ LoggerIdle
    /\ RestIdle

\* a network whose classes all get different probabilities
Descending(n) == [i \in 0..(n - 1) |-> IF i <= MaxProb THEN MaxProb - i ELSE 0]
Ascending(n) == [i \in 0..(n - 1) |-> IF i <= MaxProb THEN i ELSE MaxProb]

\* loading, single and batch prediction over the files a batch can name
Init ==
    /\ Predictor(3, 1)
    /\ World
    /\ fs \in SUBSET BatchPaths
    /\ posix = TRUE
    /\ probabilities \in {Descending(3), Ascending(3)}
    /\ results = <<>>

Next ==
    \/ LoadModel
    \/ save_model
    \/ PredictSingle
    \/ PredictBatch

Spec == Init /\ [][Next]_vars

\* directory prediction over every directory tree, on both kinds of platform
InitDirectory ==
    /\ Predictor(3, 1)
    /\ World
    /\ fs \in SUBSET AllPaths
    /\ posix \in BOOLEAN
    /\ probabilities = Descending(3)
    /\ results = <<>>

NextDirectory ==
    \/ LoadModel
    \/ save_model
    \/ PredictDirectory

SpecDirectory == InitDirectory /\ [][NextDirectory]_vars

\* ranking: every number of species, every probability vector, every threshold
InitRank ==
    /\ \E n \in 1..Len(AllSpecies), t \in 0..(MaxProb + 1) : Predictor(n, t)
    /\ World
    /\ fs = AllPaths
    /\ posix = TRUE
    /\ probabilities \in [DOMAIN species_mapping -> 0..MaxProb]
    /\ results = <<>>

NextRank ==
    \/ LoadModel
    \/ save_model
    \/ PredictSingle

SpecRank == InitRank /\ [][NextRank]_vars

\* statistics over every list of results
InitStats ==
    /\ \E t \in 0..(MaxProb + 1) : Predictor(3, t)
    /\ World
    /\ fs = AllPaths
    /\ posix = TRUE
    /\ probabilities = Descending(3)
    /\ results \in SeqsUpTo(SampleResults, MaxBatch)

NextStats ==
    \/ GetPredictionStatistics

SpecStats == InitStats /\ [][NextStats]_vars

\* logging and session statistics, two loggers on one log_dir
InitLogger ==
    /\ Predictor(3, 1)
    /\ weights_saved = TRUE
    /\ weight_reads = 0
    /\ call = NoCall
    /\ LoggerIdle
    /\ RestIdle
    /\ fs = AllPaths
    /\ posix = TRUE
    /\ probabilities = Descending(3)
    /\ results = <<>>

NextLogger ==
    \/ Tick
    \/ \E l \in Loggers : PredictionLogger(l)
    \/ \E l \in Loggers : LogPrediction(l)
    \/ \E l \in Loggers : LogBatch(l)
    \/ \E l \in Loggers : GetSessionStatistics(l)

SpecLogger == InitLogger /\ [][NextLogger]_vars

----------------------------------------------------------------------------
(* Specifications of the monitor, the trainer, the training script and the *)
(* service                                                                 *)

\* a Predictor nothing has been asked of
PredictorIdle ==
    /\ Predictor(3, 1)
    /\ weights_saved = TRUE
    /\ weight_reads = 0
    /\ fs = AllPaths
    /\ posix = TRUE
    /\ probabilities = Descending(3)
    /\ results = <<>>
    /\ call = NoCall

\* a metrics_log.jsonl an earlier process has written one line to
OlderLog ==
    write_appending(NoFile,
        <<[key |-> "timestamp", value |-> JsonString("older")],
          [key |-> "model_version", value |-> JsonNull]>>)

\* a new ModelMonitor recording metrics of every kind
InitMonitor ==
    /\ PredictorIdle
    /\ LoggerIdle
    /\ metrics_history = <<>>
    /\ metrics_log \in {NoFile, OlderLog}
    /\ TrainerIdle
    /\ MappingIdle
    /\ ServiceIdle
    /\ ScriptIdle
    /\ LoadIdle

NextMonitor ==
    \/ Tick
    \/ RecordMetrics(MetricSamples, ModelVersions, BOOLEAN, MaxHistory)
    \/ DetectPerformanceDrift
    \/ GetPerformanceReport

SpecMonitor == InitMonitor /\ [][NextMonitor]_vars

\* a monitor recording accuracies on a disk that takes every write,
\* followed past the window of the drift detection
InitDrift ==
    /\ PredictorIdle
    /\ LoggerIdle
    /\ MonitorIdle
    /\ TrainerIdle
    /\ MappingIdle
    /\ ServiceIdle
    /\ ScriptIdle
    /\ LoadIdle

NextDrift ==
    \/ RecordMetrics(AccuracySamples, {NoVersion}, {TRUE}, MaxDrift)
    \/ DetectPerformanceDrift

SpecDrift == InitDrift /\ [][NextDrift]_vars

\* fit calls on one Trainer
InitTrainer ==
    /\ PredictorIdle
    /\ LoggerIdle
    /\ MonitorIdle
    /\ TrainerIdle
    /\ MappingIdle
    /\ ServiceIdle
    /\ ScriptIdle
    /\ LoadIdle

NextTrainer ==
    \/ FitStart
    \/ Epoch
    \/ FitReturn

SpecTrainer == InitTrainer /\ [][NextTrainer]_vars

\* the epoch loop goes on and fit returns: train_epoch and validate return
SpecTrainerFair == SpecTrainer /\ WF_vars(Epoch) /\ WF_vars(FitReturn)

\* the training script on every species list
InitMapping ==
    /\ PredictorIdle
    /\ LoggerIdle
    /\ MonitorIdle
    /\ TrainerIdle
    /\ species_list \in SeqsUpTo(Range(SortedNames), MaxSpecies)
    /\ ServiceIdle
    /\ ScriptIdle
    /\ LoadIdle

NextMapping ==
    \/ CreateSpeciesMapping

SpecMapping == InitMapping /\ [][NextMapping]_vars

\* the service, with and without the weights file
InitService ==
    /\ Predictor(3, 1)
    /\ weights_saved \in BOOLEAN
    /\ weight_reads = 0
    /\ fs = AllPaths
    /\ posix = TRUE
    /\ probabilities \in {Descending(3), Ascending(3)}
    /\ results = <<>>
    /\ call = NoCall
    /\ LoggerIdle
    /\ MonitorIdle
    /\ TrainerIdle
    /\ MappingIdle
    /\ ServiceIdle
    /\ ScriptIdle
    /\ LoadIdle

NextService ==
    \/ Startup
    \/ Predict

SpecService == InitService /\ [][NextService]_vars

\* one run of predict.py over any content of the image directory
InitScript ==
    /\ Predictor(3, 1)
    /\ World
    /\ fs \in SUBSET AllPaths
    /\ posix \in BOOLEAN
    /\ probabilities = Descending(3)
    /\ results = <<>>

NextScript ==
    \/ MainStart
    \/ MainImage
    \/ MainDirectory
    \/ MainNeither
    \/ MainStats

SpecScript == InitScript /\ [][NextScript]_vars

\* threads loading and predicting on one Predictor
InitRace ==
    /\ Predictor(3, 1)
    /\ World
    /\ fs \in SUBSET BatchPaths
    /\ posix = TRUE
    /\ probabilities = Descending(3)
    /\ results = <<>>

NextRace ==
    \/ \E t \in Threads : LoadCheck(t)
    \/ \E t \in Threads : LoadBuild(t)
    \/ \E t \in Threads : LoadRead(t)
    \/ \E t \in Threads : LoadEval(t)
    \/ \E t \in Threads : LoadFlag(t)
    \/ PredictSingle

SpecRace == InitRace /\ [][NextRace]_vars

----------------------------------------------------------------------------
(* Properties of the Predictor *)

PredictOps == {"predict_single", "predict_batch", "predict_directory"}

Returned(op) == call.op = op /\ call.out.status = "return"

\* C1: once is_loaded is True it stays True, and a load_model call on a
\* loaded Predictor changes none of model, model_path, is_loaded and does
\* not read the weights again.
C1_LoadOneWayIdempotent ==
    [][/\ is_loaded => is_loaded'
       /\ (is_loaded /\ call'.op = "load_model" /\ call' # call) =>
              /\ UNCHANGED <<model, model_path, is_loaded, weight_reads>>
              /\ ~call'.printed
              /\ call'.out = Return("None")]_vars

\* a load_model call has returned on a Predictor that was already loaded
C1_Witness ==
    /\ is_loaded
    /\ call.op = "load_model"
    /\ ~call.printed
    /\ weight_reads >= 1

\* C2 (as claimed): every prediction call made while the Predictor is
\* Unloaded raises the model-not-loaded error; none returns a result list.
C2_UnloadedCallFails ==
    (call.op \in PredictOps /\ ~is_loaded) =>
        /\ call.out.status = "raise"
        /\ call.out.msg = ModelNotLoaded

\* C3: on a loaded Predictor predict_batch returns one entry per input path,
\* in input order: a normal result of predict_single for the path where
\* that call succeeds, the error record of its failure where it fails.
C3_BatchIsolatesFailures ==
    (Returned("predict_batch") /\ is_loaded) =>
        LET paths == call.image_paths
            out == call.out.value
        IN  /\ Len(out) = Len(paths)
            /\ \A i \in 1..Len(paths) :
                 \/ /\ Readable(paths[i])
                    /\ ~IsError(out[i])
                    /\ Return(out[i]) \in predict_single(paths[i])
                 \/ /\ ~Readable(paths[i])
                    /\ IsError(out[i])
                    /\ out[i] = [image_path |-> paths[i],
                                 error |-> OpenError(paths[i]).msg]

\* three paths, the second unreadable, the others predicted
C3_Witness ==
    /\ Returned("predict_batch")
    /\ is_loaded
    /\ Len(call.out.value) = 3
    /\ ~IsError(call.out.value[1])
    /\ IsError(call.out.value[2])
    /\ ~IsError(call.out.value[3])

IndexOf(species) == CHOOSE i \in DOMAIN species_mapping : species_mapping[i] = species

\* class i ranks before class j: higher probability, or equal and lower index
RanksBefore(i, j) ==
    \/ probabilities[i] > probabilities[j]
    \/ probabilities[i] = probabilities[j] /\ i < j

ImageFiles(recursive) ==
    {e.path : e \in {x \in Range(Entries) :
                        /\ Exists(x)
                        /\ Lower(x.suffix) \in valid_extensions
                        /\ (recursive \/ x.depth = 0)}}

\* C5 (as claimed): predict_directory passes to predict_batch exactly the
\* files whose extension is .jpg, .jpeg, .png or .bmp compared
\* case-insensitively, below the top level only when recursive, each once.
C5_SelectsImageFiles ==
    call.op = "predict_directory" =>
        /\ Range(call.image_paths) = ImageFiles(call.recursive)
        /\ Len(call.image_paths) = Cardinality(ImageFiles(call.recursive))

\* C6: get_prediction_statistics returns for every list: total_predictions
\* counts the non-error results, errors the others, confident_predictions
\* the non-error results with is_confident; the two ratios are 0 when no
\* result is valid; the species counts sum to total_predictions.
C6_StatisticsTotals ==
    call.op = "get_prediction_statistics" =>
        /\ call.out.status = "return"
        /\ LET st == call.out.value
               valid == {i \in DOMAIN results : ~IsError(results[i])}
               confident == {i \in valid : results[i].is_confident}
           IN  /\ st.total_predictions = Cardinality(valid)
               /\ st.errors = Len(results) - Cardinality(valid)
               /\ st.confident_predictions = Cardinality(confident)
               /\ valid = {} => /\ st.confidence_rate = Zero
                                /\ st.average_confidence = Zero
               /\ valid # {} =>
                    /\ st.confidence_rate =
                         Divide(Cardinality(confident), Cardinality(valid))
                    /\ st.average_confidence.den = Cardinality(valid)
               /\ SumOver(st.species_distribution,
                          DOMAIN st.species_distribution) = Cardinality(valid)

\* statistics of a list that holds error records only
C6_Witness ==
    /\ Returned("get_prediction_statistics")
    /\ results # <<>>
    /\ \A i \in DOMAIN results : IsError(results[i])
    /\ call.out.value.errors = Len(results)

----------------------------------------------------------------------------
(* Properties of the PredictionLogger *)

IsPrefix(s, t) == Len(s) <= Len(t) /\ SubSeq(t, 1, Len(s)) = s

Constructed(l) == current_session_path[l] # NoSession

\* no other logger has the same session file
Exclusive(l) ==
    /\ Constructed(l)
    /\ \A m \in Loggers \ {l} : current_session_path[m] # current_session_path[l]

Parsed(file) == [i \in DOMAIN file.lines |-> loads(file.lines[i])]

\* C7: a log call only appends: log_prediction adds one record at the end
\* of its logger's session file, log_batch adds its records in input order,
\* every earlier record and every other file stay as they were; so the
\* file of a logger holds exactly the records logged through it, in order.
C7_AppendOnlyInOrder ==
    [][/\ \A p \in Sessions : IsPrefix(files[p].lines, files'[p].lines)
       /\ \A l \in Loggers :
            logged'[l] # logged[l] =>
                LET path == current_session_path[l]
                    added == SubSeq(logged'[l], Len(logged[l]) + 1, Len(logged'[l]))
                IN  /\ files'[path].lines =
                          files[path].lines \o [i \in DOMAIN added |-> dumps(added[i])]
                    /\ call'.op = "log_prediction" => Len(added) = 1
                    /\ \A q \in Sessions \ {path} : files'[q] = files[q]
       /\ \A l \in Loggers :
            Exclusive(l)' => Parsed(files'[current_session_path'[l]]) = logged'[l]
      ]_vars

\* a logger that owns its file has logged three records, the last by log_batch
C7_Witness ==
    \E l \in Loggers :
        /\ Exclusive(l)
        /\ call.op = "log_batch"
        /\ call.logger = l
        /\ Len(logged[l]) = 3
        /\ logged[l][2] # logged[l][3]
        /\ Len(files[current_session_path[l]].lines) = 3

\* the file the last get_session_statistics call was to read
AskedFile ==
    IF call.session_file # NoSession
    THEN call.session_file
    ELSE current_session_path[call.logger]

HasErrorKey(line) == \E m \in DOMAIN line : line[m].key = "error"

\* C8: the statistics of an existing session file are a function of its
\* content: total_predictions is its number of records, errors the number
\* of records with an 'error' key, successful_predictions the difference,
\* the species counts sum to it; every logger, the one that wrote the file
\* or one constructed later, gets the same statistics for that file.
C8_StatisticsFromFile ==
    (call.op = "get_session_statistics" /\ files[AskedFile].exists) =>
        LET st == call.out.value
            lines == files[AskedFile].lines
            errs == {i \in DOMAIN lines : HasErrorKey(lines[i])}
        IN  /\ st.total_predictions = Len(lines)
            /\ st.errors = Cardinality(errs)
            /\ st.successful_predictions = Len(lines) - Cardinality(errs)
            /\ SumOver(st.species_distribution, DOMAIN st.species_distribution)
                  = st.successful_predictions
            /\ \A m \in Loggers :
                  Constructed(m) => get_session_statistics(m, AskedFile) = st

\* a logger constructed in a later second reads the file another one wrote
C8_Witness ==
    /\ call.op = "get_session_statistics"
    /\ call.session_file # NoSession
    /\ call.session_file < current_session_path[call.logger]
    /\ logged[call.logger] = <<>>
    /\ Len(files[call.session_file].lines) >= 2
    /\ call.out.value.errors = 1
    /\ call.out.value.successful_predictions >= 1

ZeroStatistics ==
    [total_predictions |-> 0, successful_predictions |-> 0, errors |-> 0,
     average_confidence |-> Zero, min_confidence |-> 0, max_confidence |-> 0,
     std_confidence |-> Zero, species_distribution |-> <<>>]

\* C9 (as claimed): for a session in which no record has been logged
\* get_session_statistics returns the zeroed statistics: counts 0,
\* confidence figures 0, empty histogram.
C9_EmptySessionZeroed ==
    (call.op = "get_session_statistics" /\ files[AskedFile].lines = <<>>) =>
        /\ DOMAIN call.out.value = DOMAIN ZeroStatistics
        /\ call.out.value = ZeroStatistics

----------------------------------------------------------------------------
(* Properties of the ModelMonitor *)

\* C11: every record_metrics call appends one entry, stamped with the
\* current time and with the model version it was given, at the end of the
\* in-memory history and one line holding that entry at the end of
\* metrics_log.jsonl; both grow by exactly one and every earlier entry of
\* both stays where and what it was.
C11_StampedAppendToBoth ==
    [][metrics_history' # metrics_history =>
        LET entry == metrics_history'[Len(metrics_history')]
        IN  /\ metrics_history' = Append(metrics_history, entry)
            /\ entry.timestamp = isoformat(now)
            /\ entry.model_version = call'.model_version
            /\ metrics_log'.exists
            /\ metrics_log'.lines = Append(metrics_log.lines, dumps_metrics(entry))]_vars

\* C12: on a history of fewer than two entries detect_performance_drift
\* reports drift_detected False with the reason 'Insufficient data',
\* whatever the threshold and whatever the entry holds.
C12_InsufficientData ==
    (call.op = "detect_performance_drift" /\ Len(metrics_history) < 2) =>
        /\ DOMAIN call.out.value = {"drift_detected", "reason"}
        /\ call.out.value.drift_detected = FALSE
        /\ call.out.value.reason = "Insufficient data"

\* a drift detection with a negative threshold on a history of one entry
C12_Witness ==
    /\ call.op = "detect_performance_drift"
    /\ Len(metrics_history) = 1
    /\ call.threshold = -1
    /\ call.out.value.reason = "Insufficient data"

\* C13: on a history of n >= 2 entries accuracy_drop is the accuracy of the
\* first entry ever recorded minus the mean of the accuracies of the most
\* recent min(10, n) entries, and drift_detected is True exactly when that
\* drop is strictly greater than the threshold; ten entries, the first at
\* 0.90, with a mean of 0.80 and a threshold of 0.05 give drift with a drop
\* of 0.10.
C13_DriftAgainstFirst ==
    (call.op = "detect_performance_drift" /\ Len(metrics_history) >= 2) =>
        LET n == Len(metrics_history)
            k == Min(10, n)
            window == (n - k + 1)..n
            total == SumOver([i \in window |-> metrics_history[i].accuracy], window)
            first == metrics_history[1].accuracy
            out == call.out.value
        IN  /\ out.accuracy_drop.den > 0
            /\ out.accuracy_drop.num * k = (first * k - total) * out.accuracy_drop.den
            /\ out.drift_detected <=> (first * k - total > call.threshold * k)
            /\ (n = 10 /\ first = 18 /\ total = 160 /\ call.threshold = 1) =>
                    /\ out.drift_detected
                    /\ out.accuracy_drop.num = 2 * out.accuracy_drop.den

\* drift found on eleven entries: the first one, at 0.90, is no longer one
\* of the ten most recent, which are all at 0.70
C13_Witness ==
    /\ call.op = "detect_performance_drift"
    /\ Len(metrics_history) = 11
    /\ metrics_history[1].accuracy = 18
    /\ \A i \in 2..11 : metrics_history[i].accuracy = 14
    /\ call.threshold = 1
    /\ call.out.value.drift_detected

----------------------------------------------------------------------------
(* Properties of the Trainer *)

\* the phase a run that freezes the backbone is in once `done` epochs have
\* run: unfrozen when the loop has come to epoch unfreeze_at_epoch
PhaseAfter(done) ==
    IF 1 <= fit_args.unfreeze_at_epoch /\ fit_args.unfreeze_at_epoch <= done
    THEN FullyUnfrozen ELSE BackboneFrozen

InRun == call.op \in {"fit_start", "epoch", "fit"}

\* C14: in every run of fit with freeze_backbone=True the model goes from
\* BackboneFrozen to FullyUnfrozen exactly once, at the start of the epoch
\* whose index is unfreeze_at_epoch and never before: every epoch of a
\* smaller index is trained frozen, every epoch from unfreeze_at_epoch on
\* is trained unfrozen, and the run returns unfrozen.
C14_UnfreezesExactlyOnce ==
    fit_args.freeze_backbone =>
        /\ call.op = "epoch" =>
              call.trained = IF call.epoch < fit_args.unfreeze_at_epoch
                             THEN BackboneFrozen ELSE FullyUnfrozen
        /\ call.op = "fit" => requires_grad = FullyUnfrozen

\* C14, amended: in a run of fit with freeze_backbone=True the model goes
\* from BackboneFrozen to FullyUnfrozen at most once, at the start of epoch
\* unfreeze_at_epoch when the loop comes to that epoch; epochs before it
\* are trained frozen, that epoch and the later ones unfrozen, and a run
\* that never comes to it trains every epoch frozen and returns frozen.
C14_UnfreezesWhenEpochReached ==
    (fit_args.freeze_backbone /\ InRun) =>
        /\ requires_grad = PhaseAfter(epoch)
        /\ call.op = "epoch" =>
              call.epoch = epoch /\ call.trained = PhaseAfter(call.epoch)

\* the second epoch of a run that unfreezes at epoch 2 is trained unfrozen
C14_Witness ==
    /\ call.op = "epoch"
    /\ fit_args.freeze_backbone
    /\ fit_args.unfreeze_at_epoch = 2
    /\ call.epoch = 2
    /\ call.trained = FullyUnfrozen

\* C15: every fit call starts in the phase its freeze_backbone argument
\* asks for, BackboneFrozen when it is True and FullyUnfrozen when it is
\* False, also when an earlier fit call on the same Trainer and model ended
\* before its unfreeze epoch.
C15_StartsInRequestedPhase ==
    call.op = "fit_start" =>
        requires_grad = IF fit_args.freeze_backbone
                        THEN BackboneFrozen ELSE FullyUnfrozen

\* the validation losses of the epochs the current run has done
RunLosses(h, done) == SubSeq(h.val_loss, run_start + 1, run_start + done)

\* C16: at the end of every epoch a checkpoint is saved exactly when the
\* epoch's validation loss is strictly lower than that of every earlier
\* epoch of the run, and then the patience counter is 0; otherwise nothing
\* is saved and the counter goes up by one.  The checkpoint saved last is
\* that of an epoch with the lowest validation loss so far.
C16_CheckpointOnImprovement ==
    [][epoch' = epoch + 1 =>
        LET losses == RunLosses(history', epoch')
            lower == \A j \in 1..epoch : losses[epoch'] < losses[j]
            saved == checkpoints' # checkpoints
            last == checkpoints'[Len(checkpoints')]
        IN  /\ saved <=> lower
            /\ saved => /\ checkpoints' = Append(checkpoints, last)
                        /\ last.epoch = epoch'
                        /\ patience_counter' = 0
            /\ ~saved => patience_counter' = patience_counter + 1
            /\ checkpoints' # <<>>
            /\ last.epoch \in 1..epoch'
            /\ \A j \in 1..epoch' : losses[last.epoch] <= losses[j]]_vars

\* the third epoch improves on the first after the second did not
C16_Witness ==
    /\ call.op = "epoch"
    /\ call.epoch = 3
    /\ patience_counter = 0
    /\ Len(checkpoints) = 2
    /\ checkpoints[2].epoch = 3

\* the last epoch of the current run whose validation loss was strictly
\* lower than that of every epoch before it
LastImproved ==
    LET losses == RunLosses(history, epoch)
        lower(j) == \A i \in 1..(j - 1) : losses[j] < losses[i]
    IN  CHOOSE j \in 1..epoch :
            lower(j) /\ \A i \in (j + 1)..epoch : ~lower(i)

\* C17: fit always terminates: it leaves the loop at the end of the first
\* epoch that completes 5 epochs in a row without a lower validation loss
\* (the patience counter counts them) or after epoch number `epochs`,
\* whichever comes first; it never runs more than `epochs` epochs and never
\* another one once the counter is at 5.
C17_FitTerminates ==
    /\ [](pc = "loop" => epoch < fit_args.epochs /\ patience_counter < 5)
    /\ [](pc = "done" => /\ epoch <= fit_args.epochs
                         /\ patience_counter <= 5
                         /\ patience_counter = 5 \/ epoch = fit_args.epochs)
    /\ [](pc \in {"loop", "done"} /\ epoch >= 1 =>
            patience_counter = epoch - LastImproved)
    /\ (pc \in {"loop", "done"} ~> pc = "idle")

\* a run stopped early, before its last epoch
C17_Witness ==
    /\ pc = "done"
    /\ patience_counter = 5
    /\ epoch < fit_args.epochs

\* C18: every completed epoch adds exactly one entry to each of the four
\* sequences of the training history, which so keep one length; nothing
\* else changes the history and no earlier entry changes; when fit returns
\* on a Trainer whose history was empty, the length is the number of
\* epochs that were run.
C18_HistoryGrowsPerEpoch ==
    [][/\ epoch' = epoch + 1 =>
             \A key \in DOMAIN history :
                /\ Len(history'[key]) = Len(history[key]) + 1
                /\ SubSeq(history'[key], 1, Len(history[key])) = history[key]
       /\ epoch' # epoch + 1 => history' = history
       /\ \A key \in DOMAIN history' :
             Len(history'[key]) = Len(history'.val_loss)
       /\ (pc = "done" /\ pc' = "idle" /\ run_start = 0) =>
             /\ Len(history'.val_loss) = epoch
             /\ call'.out.value = history']_vars

\* a first fit call that ran six epochs, fewer than asked for, has returned
C18_Witness ==
    /\ call.op = "fit"
    /\ run_start = 0
    /\ epoch = 6
    /\ fit_args.epochs > epoch
    /\ Len(history.val_acc) = 6

----------------------------------------------------------------------------
(* Properties of the prediction service *)

\* the uploads whose bytes Pillow cannot decode as an image
Undecodable == {"text", "truncated image"}

\* C19: POST /predict answers 503 when the predictor is absent or not
\* loaded, whatever the upload; else 400 when the content type is missing
\* or not an image type; else 400 when the uploaded bytes cannot be decoded
\* as an image, for every decode failure and for decode failures only, and
\* 500 for every other failure during inference; a success carries the
\* fields of a PredictionResult.
C19_StatusByFailure ==
    call.op = "predict" =>
        LET answer == call.out.value
        IN  IF predictor = NoPredictor \/ ~is_loaded
            THEN answer.status_code = 503
            ELSE IF call.content_type.type # "image"
            THEN answer.status_code = 400
            ELSE IF call.disk # "written"
            THEN answer.status_code = 500
            ELSE IF call.content \in Undecodable
            THEN answer.status_code = 400
            ELSE \/ answer.status_code = 500
                 \/ /\ answer.status_code = 200
                    /\ DOMAIN answer.body =
                          {"predicted_species", "confidence", "is_confident",
                           "top_predictions", "model_version", "timestamp"}

----------------------------------------------------------------------------
(* Properties of the species mapping *)

\* C20: the species mapping is a bijection onto dense indices: for every
\* species list the indices given are exactly 0..N-1 for the N entries of
\* the mapping, each used once, so every index is smaller than
\* num_classes = len(species_mapping).
C20_DenseIndices ==
    call.op = "create_species_mapping" =>
        LET mapping == call.out.value
            N == Cardinality(DOMAIN mapping)
        IN  /\ {mapping[s] : s \in DOMAIN mapping} = 0..(N - 1)
            /\ \A s, t \in DOMAIN mapping : s # t => mapping[s] # mapping[t]
            /\ \A s \in DOMAIN mapping : mapping[s] < call.num_classes

----------------------------------------------------------------------------
(* Properties of the performance report *)

\* what the claim says of one metric of a report over the history
ReportsMetric(out, key, average, least, most) ==
    LET carriers == {i \in DOMAIN metrics_history : key \in DOMAIN metrics_history[i]}
        value == [i \in carriers |-> metrics_history[i][key]]
    IN  IF carriers = {}
        THEN out[average].num = 0 /\ out[least] = 0 /\ out[most] = 0
        ELSE /\ out[average].den > 0
             /\ out[average].num * Cardinality(carriers)
                    = SumOver(value, carriers) * out[average].den
             /\ \E i \in carriers : out[least] = value[i]
             /\ \A i \in carriers : out[least] <= value[i]
             /\ \E i \in carriers : out[most] = value[i]
             /\ \A i \in carriers : out[most] >= value[i]

ReportFields ==
    {"total_evaluations", "average_accuracy", "max_accuracy", "min_accuracy",
     "average_loss", "min_loss", "max_loss", "last_evaluation"}

ReportsHistory(out) ==
    /\ DOMAIN out = ReportFields
    /\ out.total_evaluations = Len(metrics_history)
    /\ metrics_history # <<>> =>
          out.last_evaluation = metrics_history[Len(metrics_history)]
    /\ ReportsMetric(out, "accuracy", "average_accuracy", "min_accuracy", "max_accuracy")
    /\ ReportsMetric(out, "loss", "average_loss", "min_loss", "max_loss")

\* C21: get_performance_report returns, over the whole history,
\* total_evaluations equal to the number of snapshots recorded,
\* last_evaluation equal to the one recorded last, and the average, the
\* minimum and the maximum of the accuracy values and of the loss values
\* present; the three fields of a metric are 0 whenever no snapshot carries
\* that metric.
C21_ReportOverHistory ==
    call.op = "get_performance_report" => ReportsHistory(call.out.value)

\* C21, amended: the same for a history of at least one snapshot; for an
\* empty history the report is the empty dict, with no field at all.
C21_ReportOverNonEmptyHistory ==
    call.op = "get_performance_report" =>
        IF metrics_history = <<>>
        THEN DOMAIN call.out.value = {}
        ELSE ReportsHistory(call.out.value)

\* a report over two snapshots of which one carries an accuracy and none a
\* loss
C21_Witness ==
    /\ call.op = "get_performance_report"
    /\ Len(metrics_history) = 2
    /\ "accuracy" \in DOMAIN metrics_history[1]
    /\ "accuracy" \notin DOMAIN metrics_history[2]
    /\ \A i \in 1..2 : "loss" \notin DOMAIN metrics_history[i]
    /\ call.out.value.max_accuracy = 18
    /\ call.out.value.max_loss = 0

\* the snapshots this monitor has written to metrics_log.jsonl: the lines
\* that came after those the file held when the monitor was constructed
WrittenByMonitor(older) ==
    SubSeq(metrics_log.lines, older + 1, Len(metrics_log.lines))

\* C25: the history of a monitor and the metrics log never diverge: after
\* any sequence of record_metrics calls, failed writes included, the
\* history is the sequence of snapshots the monitor has written to
\* metrics_log.jsonl; a failed call leaves the history as it was.
C25_HistoryMatchesLog ==
    \E older \in 0..Len(OlderLog.lines) :
        /\ older <= Len(metrics_log.lines)
        /\ WrittenByMonitor(older) =
              [i \in DOMAIN metrics_history |-> dumps_metrics(metrics_history[i])]

----------------------------------------------------------------------------
(* Properties of the temporary upload file *)

\* the request got as far as predict_single, which raised
PredictionFailed ==
    /\ call.op = "predict"
    /\ predictor # NoPredictor /\ is_loaded
    /\ call.content_type.type = "image"
    /\ call.disk = "written"
    /\ call.out.value.status_code # 200

\* C22: the clean-up of the temporary file never masks the error of the
\* prediction: when predict_single fails, the answer carries the status
\* (400 or 500) and the detail of that error, also when removing the
\* temporary file fails too.
C22_CleanupKeepsError ==
    PredictionFailed =>
        \E o \in predict_upload(call.content) :
            /\ o.status = "raise"
            /\ call.out.value = error_response(o)

\* the request created a temporary file
CreatedTempFile ==
    /\ call.op = "predict"
    /\ predictor # NoPredictor /\ is_loaded
    /\ call.content_type.type = "image"
    /\ call.disk # "no file"

\* C27: no temporary file outlives its request: whenever the request
\* created one and removing it succeeds, no file is left when the handler
\* has finished, whether the prediction succeeded or the upload could not
\* be read, decoded or classified.
C27_NoTempFileLeft ==
    (CreatedTempFile /\ call.removable) => call.left = 0

----------------------------------------------------------------------------
(* Properties of the result of predict_single *)

\* C24: in every result of predict_single the headline agrees with the
\* ranking: the first of top_predictions has the species predicted_species
\* and the confidence `confidence`, also when several classes share the
\* highest probability, and is_confident is True exactly when that
\* confidence is at least the threshold given at construction.
C24_HeadlineLeadsRanking ==
    Returned("predict_single") =>
        LET result == call.out.value
        IN  /\ result.top_predictions[1].species = result.predicted_species
            /\ result.top_predictions[1].confidence = result.confidence
            /\ result.is_confident <=> result.confidence >= confidence_threshold

----------------------------------------------------------------------------
(* Properties of the sessions of several loggers *)

\* C26: the sessions of distinct loggers are disjoint: two loggers on one
\* log_dir, whenever constructed, never have the same session file, the
\* session path of a logger never changes once constructed, and so the
\* session statistics of a logger count exactly the records logged through
\* it.
C26_SessionsDisjoint ==
    [][/\ \A l \in Loggers :
            Constructed(l) => current_session_path'[l] = current_session_path[l]
       /\ \A l, m \in Loggers :
            (l # m /\ Constructed(l)' /\ Constructed(m)') =>
                current_session_path'[l] # current_session_path'[m]
       /\ \A l \in Loggers :
            (Constructed(l)' /\ files'[current_session_path'[l]].exists) =>
                get_session_statistics(l, NoSession)'.total_predictions
                    = Len(logged'[l])
      ]_vars

\* C28: the inference script completes without an unhandled error when
\* --directory names a directory with no image file: predict_directory
\* returns an empty list, log_batch logs nothing, and main prints the
\* session statistics (total 0, average confidence 0) and returns normally.
C28_EmptyDirectoryCompletes ==
    (main_args.directory /\ is_loaded /\ results = <<>>
        /\ main_pc \in {"stats", "returned", "raised"})
        => /\ main_pc # "raised"
           /\ main_pc = "returned" =>
                /\ call.out = Return([total |-> 0, average_confidence |-> Zero])

Ready == model.weights /\ model.eval

\* a thread that has assigned a new model and not yet put it in eval mode
Replacing == {t \in Threads : load_pc[t] \in {"read", "eval"}}

\* a step of predict_single that ran the forward pass and returned
ForwardPass ==
    /\ call'.op = "predict_single"
    /\ call'.out.status = "return"
    /\ load_pc' = load_pc

====
